---------------------------- MODULE Spec2Model ----------------------------
(***************************************************************************)
(* A model of the lesson notebooks of ML-Methods-and-Tools:                *)
(*                                                                         *)
(*   src/lecture 4/ClassificationNN.ipynb   (template, lines 1-434, and    *)
(*                                           the executed copy, 436-975)   *)
(*   src/unnamed/part_000                   (recurrent networks, word      *)
(*                                           embeddings, 1D convnets)      *)
(*   src/Lecture6/.ipynb_checkpoints/OverUnderFitting-checkpoint.ipynb     *)
(*                                                                         *)
(* Seven specifications:                                                   *)
(*   SpecVectorize  the call x_train = vectorize_sequences(train_data)     *)
(*   SpecLabels     the calls np.asarray(labels).astype('float32')         *)
(*   SpecPad        the calls pad_sequences(x, maxlen=maxlen) and the      *)
(*                  embedding lookup that follows them                     *)
(*   Spec           the kernel session of a notebook: the namespace the    *)
(*                  cells share, the model object, the running fit         *)
(*   SpecLoad       the call imdb.load_data(num_words=...) and the two     *)
(*                  encodings of the reviews it returns                    *)
(*   SpecBatches    the epochs of a fit over its shuffled mini-batches     *)
(*   SpecOverfit    the kernel session of the OverUnderFitting notebook    *)
(*                                                                         *)
(* The floats 0.0 and 1.0 of the multi-hot matrix are the integers 0 and 1.*)
(* The sizes of the dataset (25000 reviews, 10000 words) are kept where    *)
(* only arithmetic is done on them, and scaled down to the named bounds    *)
(* where the data itself is enumerated.                                    *)
(***************************************************************************)
EXTENDS Integers, Sequences, FiniteSets, TLC

VARIABLES
    \* ---- SpecVectorize --------------------------------------------------
    train_data,     \* the list of reviews handed to vectorize_sequences
    dimension,      \* its dimension argument
    x_train,        \* the matrix it returned (<<>> before the call)
    vpc,            \* "loaded" | "vectorized"
    \* ---- SpecPad --------------------------------------------------------
    input_train,    \* the list of reviews handed to pad_sequences
    maxlen,         \* its maxlen argument
    padded,         \* the 2D integer tensor it returned
    embedded,       \* the 3D tensor the Embedding layer returned
    ppc,            \* "loaded" | "padded" | "repadded" | "embedded" | "error"
    \* ---- Spec: the kernel session of a notebook --------------------------
    notebook,       \* the notebook whose cells the kernel runs
    bound,          \* the names bound in the kernel's namespace
    shape,          \* name -> <<rows, columns>> of the array bound to it
    model,          \* the object bound to the name model
    fit,            \* the last call of model.fit, and its progress
    callback,       \* the History object the running fit fills
    history,        \* the object bound to the name history
    last_cell,      \* the cell executed last
    last_error,     \* the exception it raised, or "none"
    in_order,       \* the cells were run from the first on, one after the
                    \* other as they stand in the document, so far
    test_model,     \* the layers of the network bound to the name test_model
    summary,        \* the Total params of the last summary() printed, 0
                    \* before the first
    \* ---- SpecLabels -----------------------------------------------------
    train_labels,   \* the labels of the training reviews, as loaded
    test_labels,    \* the labels of the test reviews, as loaded
    y_train,        \* np.asarray(train_labels).astype('float32')
    y_test,         \* np.asarray(test_labels).astype('float32')
    lpc,            \* "loaded" | "converted"
    \* ---- SpecLoad -------------------------------------------------------
    dataset,        \* the reviews of the dataset file: lists of word ranks
    num_words,      \* the num_words argument of imdb.load_data
    reviews,        \* the reviews load_data returned
    encoded,        \* what was made of them: the multi-hot matrix, or the
                    \* tensor of the Embedding lookup
    dpc,            \* "file" | "loaded" | "vectorized" | "embedded" | "error"
    \* ---- SpecBatches: the epochs of a fit over its mini-batches ----------
    num_train_samples,  \* the number of samples the fit trains on
    size_of_batch,  \* its batch_size argument
    index_array,    \* the indices of the samples, as shuffled for the epoch
    batch_index,    \* the number of batches of the epoch already processed
    seen,           \* sample -> how often the epoch has processed it
    batch_sizes,    \* the sizes of the batches of the epoch, in order
    epochs_done,    \* the number of epochs completed
    bpc,            \* "between" | "epoch"
    \* ---- SpecOverfit: the kernel session of OverUnderFitting -------------
    namespace,      \* the names bound in the kernel's namespace
    layer_output,   \* the array bound to the name layer_output
    layer_input,    \* the array the last dropout was applied to
    ocell,          \* the cell executed last
    oerror          \* the exception it raised, or "none"

vvars == <<train_data, dimension, x_train, vpc>>
pvars == <<input_train, maxlen, padded, embedded, ppc>>
tvars == <<test_model, summary>>
kvars == <<notebook, bound, shape, model, fit, callback, history, last_cell, last_error,
          in_order, tvars>>
lvars == <<train_labels, test_labels, y_train, y_test, lpc>>
dvars == <<dataset, num_words, reviews, encoded, dpc>>
bvars == <<num_train_samples, size_of_batch, index_array, batch_index, seen,
          batch_sizes, epochs_done, bpc>>
ovars == <<namespace, layer_output, layer_input, ocell, oerror>>
yvars == <<bvars, ovars>>
xvars == <<dvars, yvars>>
vars == <<vvars, pvars, kvars, lvars, xvars>>

-----------------------------------------------------------------------------
(* Bounds of the enumerated data.                                          *)

\* most reviews in a list handed to vectorize_sequences
MaxReviews == 2
\* longest review handed to vectorize_sequences
MaxReviewLen == 2
\* largest dimension argument (the notebooks use the default, 10000)
MaxDimension == 2
\* most reviews in the dataset file
MaxFileReviews == 2
\* longest review of the dataset file
MaxFileLen == 2
\* largest word rank of the dataset file (the file has 88584 words)
MaxRank == 2
\* largest num_words argument of load_data (the notebooks use 10000)
MaxNumWords == 5
\* most layers of test_model (its cells can be run again and again)
MaxStackLayers == 9
\* most labels in a loaded list of labels
MaxLabels == 3
\* most reviews in a list handed to pad_sequences
MaxPadReviews == 2
\* longest review handed to pad_sequences
MaxRawLen == 3
\* largest maxlen argument (the notebooks use 500 and 20)
MaxLen == 2

\* Number of words to consider as features: imdb.load_data(num_words=
\* max_features) keeps the word indices below it.
max_features == 10000
\* The word indices the enumerated reviews are made of: the start-of-review
\* index and the largest index load_data keeps.
WordSamples == {1, max_features - 1}
\* Output dimension of the Embedding layer of the word-embedding exercise.
embedding_dim == 8

\* Sequences over S of length at most n.
RECURSIVE SeqsUpTo(_, _)
SeqsUpTo(S, n) ==
    IF n = 0 THEN {<<>>}
    ELSE LET shorter == SeqsUpTo(S, n - 1)
         IN  shorter \cup {Append(s, x) : s \in {t \in shorter : Len(t) = n - 1}, x \in S}

-----------------------------------------------------------------------------
(* vectorize_sequences                                                     *)

\* np.zeros((n, d)): n rows, columns indexed 0..d-1 as in the code.
zeros(n, d) == [i \in 1..n |-> [j \in 0..(d - 1) |-> 0]]

\* As assign_ones, but counting: results[i, j] += 1 for every listed j.
RECURSIVE assign_ones_counting(_, _)
assign_ones_counting(row, sequence) ==
    IF sequence = <<>> THEN row
    ELSE assign_ones_counting([row EXCEPT ![Head(sequence)] = @ + 1], Tail(sequence))

\* As assign_ones, but only for the first index of the list:
\* results[i, sequence[0]] = 1.
assign_ones_first(row, sequence) ==
    IF sequence = <<>> THEN row
    ELSE [row EXCEPT ![Head(sequence)] = 1]

\* results[i, sequence] = 1. on one row: every listed column is set to 1,
\* one index of the list after the other.
RECURSIVE assign_ones(_, _)
assign_ones(row, sequence) ==
    IF sequence = <<>> THEN row
    ELSE assign_ones([row EXCEPT ![Head(sequence)] = 1], Tail(sequence))

\* for i, sequence in enumerate(sequences): results[i, sequence] = 1.
\* rows 1..i-1 of results are done; row i is next.
RECURSIVE vectorize_loop(_, _, _)
vectorize_loop(results, sequences, i) ==
    IF i > Len(sequences) THEN results
    ELSE vectorize_loop([results EXCEPT ![i] = assign_ones(@, sequences[i])],
                        sequences, i + 1)

vectorize_sequences(sequences, dim) ==
    vectorize_loop(zeros(Len(sequences), dim), sequences, 1)

-----------------------------------------------------------------------------
(* The kernel session                                                      *)

\* The arrays whose shapes the cells depend on.
Arrays == {"train_data", "train_labels", "x_train", "y_train", "XTRAIN",
           "x_data", "x_val", "y_data", "y_val", "val_data", "retrain_data",
           "input_train"}

\* The shape of a name that is bound to no array.
NoShape == <<0, 0>>

\* The name model before any cell has bound it.
\* input_shape is the declared width of the input, 0 when none is declared.
NoModel == [layers |-> <<>>, input_shape |-> 0, compiled |-> FALSE,
            optimizer |-> "none", loss |-> "none", metrics |-> <<>>]

\* Before any call of model.fit.
NoFit == [called |-> FALSE, active |-> FALSE, x |-> 0, y |-> 0,
          epochs |-> 0, batch_size |-> 0, validation |-> FALSE,
          train_n |-> 0, val_n |-> 0, epoch |-> 0]

\* A History object with no epoch recorded.
NoHistory == [loss |-> <<>>, acc |-> <<>>, val_loss |-> <<>>, val_acc |-> <<>>]

KernelIdle ==
    /\ notebook = "none"
    /\ bound = {}
    /\ shape = [a \in Arrays |-> NoShape]
    /\ model = NoModel
    /\ fit = NoFit
    /\ callback = NoHistory
    /\ history = NoHistory
    /\ last_cell = "none"
    /\ last_error = "none"
    /\ in_order = TRUE
    /\ test_model = <<>>
    /\ summary = 0

-----------------------------------------------------------------------------
(* SpecVectorize: a list of reviews is loaded, then vectorized.            *)

LoadIdle ==
    /\ dataset = <<>>
    /\ num_words = 0
    /\ reviews = <<>>
    /\ encoded = <<>>
    /\ dpc = "idle"

BatchIdle ==
    /\ num_train_samples = 0
    /\ size_of_batch = 0
    /\ index_array = <<>>
    /\ batch_index = 0
    /\ seen = <<>>
    /\ batch_sizes = <<>>
    /\ epochs_done = 0
    /\ bpc = "idle"

\* An array of no entries, for a name that is not bound.
NoArray == [shape |-> <<>>, dtype |-> "none", data |-> <<>>]

OverfitIdle ==
    /\ namespace = {}
    /\ layer_output = NoArray
    /\ layer_input = NoArray
    /\ ocell = "idle"
    /\ oerror = "none"

LaterIdle == BatchIdle /\ OverfitIdle

\* The parts of the model a specification other than theirs leaves idle.
ExtraIdle == LoadIdle /\ LaterIdle

LabIdle ==
    /\ train_labels = <<>>
    /\ test_labels = <<>>
    /\ y_train = <<>>
    /\ y_test = <<>>
    /\ lpc = "idle"

PadIdle ==
    /\ input_train = <<>>
    /\ maxlen = 0
    /\ padded = <<>>
    /\ embedded = <<>>
    /\ ppc = "idle"

VecIdle ==
    /\ train_data = <<>>
    /\ dimension = 0
    /\ x_train = <<>>
    /\ vpc = "idle"

InitVectorize ==
    /\ dimension \in 1..MaxDimension
    /\ train_data \in SeqsUpTo(SeqsUpTo(0..(dimension - 1), MaxReviewLen), MaxReviews)
    /\ x_train = <<>>
    /\ vpc = "loaded"
    /\ PadIdle
    /\ KernelIdle
    /\ LabIdle
    /\ ExtraIdle

\* x_train = vectorize_sequences(train_data)
VectorizeCell ==
    /\ vpc = "loaded"
    /\ x_train' = vectorize_sequences(train_data, dimension)
    /\ vpc' = "vectorized"
    /\ UNCHANGED <<train_data, dimension, pvars, kvars, lvars, xvars>>

NextVectorize == VectorizeCell

SpecVectorize == InitVectorize /\ [][NextVectorize]_vars

-----------------------------------------------------------------------------
(* pad_sequences: keras.preprocessing.sequence.pad_sequences as the cells  *)
(* call it, with maxlen alone: padding='pre', truncating='pre', value=0.   *)

\* A sentinel that is no row of an embedding table.
pad_value_negative == 0 - 1

\* value=0., the sentinel the short reviews are filled with.
pad_value == 0

\* truncating='post': the first maxlen entries are kept.
truncate_post(s, n) == IF Len(s) > n THEN SubSeq(s, 1, n) ELSE s

\* A cut one entry short at the other end: a review of maxlen entries or
\* more is cut to its first maxlen - 1.
truncate_short(s, n) ==
    IF Len(s) >= n THEN SubSeq(s, 1, n - 1) ELSE s

\* trunc = s[-maxlen:]: the last maxlen entries of a review are kept.
truncate(s, n) == IF Len(s) > n THEN SubSeq(s, Len(s) - n + 1, Len(s)) ELSE s

\* A row that is not filled up: the truncated review alone.
pad_row_unfilled(s, n) == truncate(s, n)

\* x[idx, -len(trunc):] = trunc on a row np.full((maxlen,), value): the
\* truncated review sits at the end of the row, the sentinel before it.
pad_row(s, n) ==
    LET trunc == truncate(s, n)
        fill == n - Len(trunc)
    IN  [k \in 1..n |-> IF k <= fill THEN pad_value ELSE trunc[k - fill]]

pad_sequences(sequences, n) ==
    [idx \in 1..Len(sequences) |-> pad_row(sequences[idx], n)]

\* Whether every entry of a 2D integer tensor is a row of a table of
\* input_dim rows.
valid_indices(input_dim, inputs) ==
    \A i \in 1..Len(inputs) : \A t \in 1..Len(inputs[i]) :
        inputs[i][t] \in 0..(input_dim - 1)

\* The Embedding layer as the notebook describes it: a dictionary from the
\* integer indices to dense vectors of output_dim entries (the weight of
\* index w, entry d, is written <<w, d>>); a 2D tensor of integers of shape
\* (samples, sequence_length) becomes a 3D tensor of shape
\* (samples, sequence_length, output_dim).
Embedding(output_dim, inputs) ==
    [i \in 1..Len(inputs) |->
        [t \in 1..Len(inputs[i]) |->
            [d \in 1..output_dim |-> <<inputs[i][t], d>>]]]

-----------------------------------------------------------------------------
(* SpecPad: a list of reviews is loaded, padded, and embedded.             *)

InitPad ==
    /\ maxlen \in 1..MaxLen
    /\ input_train \in SeqsUpTo(SeqsUpTo(WordSamples, MaxRawLen), MaxPadReviews)
    /\ padded = <<>>
    /\ embedded = <<>>
    /\ ppc = "loaded"
    /\ VecIdle
    /\ KernelIdle
    /\ LabIdle
    /\ ExtraIdle

\* The pad cell with the reviews cut and filled where they are: the list
\* that was loaded is overwritten with the padded rows.
PadCell_in_place ==
    /\ ppc = "loaded"
    /\ padded' = pad_sequences(input_train, maxlen)
    /\ input_train' = padded'
    /\ ppc' = "padded"
    /\ UNCHANGED <<maxlen, embedded, vvars, kvars, lvars, xvars>>

\* x_train = preprocessing.sequence.pad_sequences(x_train, maxlen=maxlen)
\* pad_sequences fills a new array and leaves the list it is given as it
\* was; the assignment binds the name of the list to the new array.
PadCell ==
    /\ ppc = "loaded"
    /\ padded' = pad_sequences(input_train, maxlen)
    /\ ppc' = "padded"
    /\ UNCHANGED <<input_train, maxlen, embedded, vvars, kvars, lvars, xvars>>

\* Embedding(10000, 8, input_length=maxlen) applied to the padded reviews.
EmbedCell ==
    /\ ppc \in {"padded", "repadded"}
    /\ IF valid_indices(max_features, padded)
       THEN /\ embedded' = Embedding(embedding_dim, padded)
            /\ ppc' = "embedded"
       ELSE \* the lookup of an index outside the table raises
            /\ embedded' = <<>>
            /\ ppc' = "error"
    /\ UNCHANGED <<input_train, maxlen, padded, vvars, kvars, lvars, xvars>>

\* What the name of the reviews (input_train, or x_train in the
\* word-embedding exercise) is bound to: the loaded list until the pad cell
\* has run, the padded tensor from then on.
name_of_reviews ==
    IF ppc \in {"padded", "repadded", "embedded"} THEN padded ELSE input_train

\* x_train = sequence.pad_sequences(x_train, maxlen=max_len) once more, on
\* the name the pad cell has bound to the padded tensor.
RepadCell ==
    /\ ppc \in {"padded", "repadded"}
    /\ padded' = pad_sequences(name_of_reviews, maxlen)
    /\ ppc' = "repadded"
    /\ UNCHANGED <<input_train, maxlen, embedded, vvars, kvars, lvars, xvars>>

NextPad == PadCell \/ EmbedCell \/ RepadCell

SpecPad == InitPad /\ [][NextPad]_vars

-----------------------------------------------------------------------------
(* SpecLabels: the labels are loaded, then converted to float32 arrays.     *)

\* The largest integer below which every integer is a float32.
float32_exact == 16777216

\* astype('float32') on one integer: a float32 has a significand of 24
\* bits, so an integer up to 2^24 in size is kept and a larger one (below
\* 2^25) is rounded to an even integer, a tie going to the multiple of 4.
astype_float32(v) ==
    LET a == IF v < 0 THEN 0 - v ELSE v
        r == IF a <= float32_exact \/ a % 2 = 0 THEN a
             ELSE IF (a + 1) % 4 = 0 THEN a + 1 ELSE a - 1
    IN  [dtype |-> "float32", value |-> IF v < 0 THEN 0 - r ELSE r]

\* The conversion applied to the labels after the first:
\* np.asarray(labels[1:]).astype('float32').
asarray_float32_after_first(labels) ==
    [i \in 1..(Len(labels) - 1) |-> astype_float32(labels[i + 1])]

\* np.asarray(labels).astype('float32'): an array of as many entries as
\* the list, entry i the float32 of label i.
asarray_float32(labels) ==
    [i \in 1..Len(labels) |-> astype_float32(labels[i])]

\* imdb.load_data gives one label, 0 or 1, for every review.
InitLabels ==
    /\ train_labels \in SeqsUpTo({0, 1}, MaxLabels)
    /\ test_labels \in SeqsUpTo({0, 1}, MaxLabels)
    /\ y_train = <<>>
    /\ y_test = <<>>
    /\ lpc = "loaded"
    /\ VecIdle
    /\ PadIdle
    /\ KernelIdle
    /\ ExtraIdle

\* y_train = np.asarray(train_labels).astype('float32')
\* y_test = np.asarray(test_labels).astype('float32')
LabelsCell ==
    /\ lpc = "loaded"
    /\ y_train' = asarray_float32(train_labels)
    /\ y_test' = asarray_float32(test_labels)
    /\ lpc' = "converted"
    /\ UNCHANGED <<train_labels, test_labels, vvars, pvars, kvars, xvars>>

NextLabels == LabelsCell

SpecLabels == InitLabels /\ [][NextLabels]_vars

-----------------------------------------------------------------------------
(* SpecLoad: imdb.load_data(num_words=n), Keras code, as the cells call it *)
(* (start_char=1, oov_char=2, index_from=3, skip_top=0), followed by the   *)
(* cell that encodes the loaded reviews.                                   *)

start_char == 1
oov_char == 2
index_from == 3

\* load_data without its num_words argument: every word keeps its index.
load_data_unlimited(file, n) ==
    [r \in 1..Len(file) |->
        <<start_char>> \o [k \in 1..Len(file[r]) |-> file[r][k] + index_from]]

\* xs = [[start_char] + [w + index_from for w in x] for x in xs]
\* xs = [[w if skip_top <= w < num_words else oov_char for w in x] for x in xs]
load_data(file, n) ==
    LET shifted == [r \in 1..Len(file) |->
                      <<start_char>> \o
                      [k \in 1..Len(file[r]) |-> file[r][k] + index_from]]
    IN  [r \in 1..Len(shifted) |->
            [k \in 1..Len(shifted[r]) |->
                IF 0 <= shifted[r][k] /\ shifted[r][k] < n
                THEN shifted[r][k] ELSE oov_char]]

\* Whether results[i, sequence] = 1. finds every index of every sequence
\* on an axis of dim columns (numpy takes -dim..dim-1, and raises IndexError
\* for any other index).
indices_on_axis(sequences, dim) ==
    \A i \in 1..Len(sequences) : \A k \in 1..Len(sequences[i]) :
        (0 - dim) <= sequences[i][k] /\ sequences[i][k] < dim

\* The notebooks call load_data with num_words=10000, above oov_char.
InitLoad ==
    /\ num_words \in (oov_char + 1)..MaxNumWords
    /\ dataset \in SeqsUpTo(SeqsUpTo(1..MaxRank, MaxFileLen), MaxFileReviews)
    /\ reviews = <<>>
    /\ encoded = <<>>
    /\ dpc = "file"
    /\ VecIdle
    /\ PadIdle
    /\ KernelIdle
    /\ LabIdle
    /\ LaterIdle

\* (train_data, train_labels), ... = imdb.load_data(num_words=10000)
LoadCell ==
    /\ dpc = "file"
    /\ reviews' = load_data(dataset, num_words)
    /\ dpc' = "loaded"
    /\ UNCHANGED <<dataset, num_words, encoded, vvars, pvars, kvars, lvars, yvars>>

\* x_train = vectorize_sequences(train_data), dimension=10000 as num_words
VectorizeLoaded ==
    /\ dpc = "loaded"
    /\ IF indices_on_axis(reviews, num_words)
       THEN /\ encoded' = vectorize_sequences(reviews, num_words)
            /\ dpc' = "vectorized"
       ELSE /\ encoded' = <<>>
            /\ dpc' = "error"
    /\ UNCHANGED <<dataset, num_words, reviews, vvars, pvars, kvars, lvars, yvars>>

\* model.add(Embedding(max_features, 32)) applied to reviews loaded with
\* num_words=max_features
EmbedLoaded ==
    /\ dpc = "loaded"
    /\ IF valid_indices(num_words, reviews)
       THEN /\ encoded' = Embedding(32, reviews)
            /\ dpc' = "embedded"
       ELSE /\ encoded' = <<>>
            /\ dpc' = "error"
    /\ UNCHANGED <<dataset, num_words, reviews, vvars, pvars, kvars, lvars, yvars>>

NextLoad == LoadCell \/ VectorizeLoaded \/ EmbedLoaded

SpecLoad == InitLoad /\ [][NextLoad]_vars

-----------------------------------------------------------------------------
(* SpecBatches: the epochs of model.fit(x, y, epochs, batch_size) over its  *)
(* mini-batches, as the training loop of Keras runs them: the index array  *)
(* is shuffled at the start of an epoch and cut into batches, and every    *)
(* batch is one step of the progress bar.                                  *)

MaxSamples == 4
MaxBatchSize == 3
MaxEpochs == 2

\* Batches of full size only: what is left over after the last full batch
\* is not made a batch.
make_batches_drop_remainder(size, b) ==
    LET num_batches == size \div b
    IN  [i \in 1..num_batches |->
            <<(i - 1) * b, IF i * b < size THEN i * b ELSE size>>]

\* make_batches(size, batch_size): the (start, end) pairs of the batches,
\* [(i * batch_size, min(size, (i + 1) * batch_size)) for i in
\* range(num_batches)], with num_batches = ceil(size / batch_size).
make_batches(size, b) ==
    LET num_batches == (size + b - 1) \div b
    IN  [i \in 1..num_batches |->
            <<(i - 1) * b, IF i * b < size THEN i * b ELSE size>>]

\* np.random.shuffle(index_array): any order of the indices.
shuffles(n) ==
    {p \in [1..n -> 1..n] : \A i, j \in 1..n : i # j => p[i] # p[j]}

InitBatches ==
    /\ num_train_samples \in 1..MaxSamples
    /\ size_of_batch \in 1..MaxBatchSize
    /\ index_array = [i \in 1..num_train_samples |-> i]
    /\ batch_index = 0
    /\ seen = [i \in 1..num_train_samples |-> 0]
    /\ batch_sizes = <<>>
    /\ epochs_done = 0
    /\ bpc = "between"
    /\ VecIdle
    /\ PadIdle
    /\ KernelIdle
    /\ LabIdle
    /\ LoadIdle
    /\ OverfitIdle

\* for epoch in range(epochs): np.random.shuffle(index_array);
\* batches = make_batches(num_train_samples, batch_size)
EpochBegin ==
    /\ bpc = "between"
    /\ epochs_done < MaxEpochs
    /\ index_array' \in shuffles(num_train_samples)
    /\ batch_index' = 0
    /\ seen' = [i \in 1..num_train_samples |-> 0]
    /\ batch_sizes' = <<>>
    /\ bpc' = "epoch"
    /\ UNCHANGED <<num_train_samples, size_of_batch, epochs_done,
                   vvars, pvars, kvars, lvars, dvars, ovars>>

\* for batch_index, (batch_start, batch_end) in enumerate(batches):
\*     batch_ids = index_array[batch_start:batch_end]
\* The samples of batch_ids are processed in one step.
BatchStep ==
    /\ bpc = "epoch"
    /\ batch_index < Len(make_batches(num_train_samples, size_of_batch))
    /\ LET batch == make_batches(num_train_samples, size_of_batch)[batch_index + 1]
           batch_ids == SubSeq(index_array, batch[1] + 1, batch[2])
       IN  /\ seen' = [i \in 1..num_train_samples |->
                          seen[i] + Cardinality({k \in 1..Len(batch_ids) :
                                                    batch_ids[k] = i})]
           /\ batch_sizes' = Append(batch_sizes, Len(batch_ids))
    /\ batch_index' = batch_index + 1
    /\ UNCHANGED <<num_train_samples, size_of_batch, index_array, epochs_done, bpc,
                   vvars, pvars, kvars, lvars, dvars, ovars>>

\* The last batch of the epoch was processed: the epoch is over.
EpochEnd ==
    /\ bpc = "epoch"
    /\ batch_index = Len(make_batches(num_train_samples, size_of_batch))
    /\ epochs_done' = epochs_done + 1
    /\ bpc' = "between"
    /\ UNCHANGED <<num_train_samples, size_of_batch, index_array, batch_index,
                   seen, batch_sizes, vvars, pvars, kvars, lvars, dvars, ovars>>

NextBatches == EpochBegin \/ BatchStep \/ EpochEnd

SpecBatches == InitBatches /\ [][NextBatches]_vars

-----------------------------------------------------------------------------
(* SpecOverfit: the kernel session of the OverUnderFitting notebook.  The  *)
(* cells that build, compile and fit its networks are empty; the cells     *)
(* that compare two networks hold #TO DO where an expression belongs.      *)
(* An entry of an array is written <<m, e>> for the number m * 2^e.        *)

MaxScale == 2

\* The cells left empty for the fit of the original, the smaller, the
\* bigger, the L2-regularized and the dropout network.
FitCells == {"fit_original", "fit_smaller", "fit_bigger", "fit_l2", "fit_dropout"}

\* The cells that draw the losses of two networks over epochs, the first of
\* them the one that assigns epochs = range(1, 21).
ComparisonCells == {"compare", "plot", "plot_bigger", "plot_training", "plot_l2",
                    "plot_dropout"}

\* The names a comparison cell plots: the axis and the series it assigns.
plotted_by(c) ==
    CASE c = "compare" -> {"epochs", "original_val_loss", "smaller_model_val_loss"}
      [] c = "plot" -> {"plt", "epochs"}
      [] c = "plot_bigger" -> {"epochs", "bigger_model_val_loss"}
      [] c = "plot_training" -> {"epochs", "original_train_loss",
                                 "bigger_model_train_loss"}
      [] c = "plot_l2" -> {"epochs", "l2_model_val_loss"}
      [] c = "plot_dropout" -> {"epochs", "dpt_model_val_loss"}

\* np.array(values) of a list of integers: one axis, as long as the list.
np_array(values) ==
    [shape |-> <<Len(values)>>, dtype |-> "int",
     data |-> [k \in 1..Len(values) |-> <<values[k], 0>>]]

RECURSIVE size_of(_)
\* The number of entries of an array of a shape.
size_of(s) == IF s = <<>> THEN 1 ELSE Head(s) * size_of(Tail(s))

\* np.random.randint(0, high=2, size=shape): any array of zeros and ones.
randint(s) ==
    {[shape |-> s, dtype |-> "int", data |-> d] :
        d \in [1..size_of(s) -> {<<0, 0>>, <<1, 0>>}]}

\* An entry times an entry of a mask of zeros and ones.
times(v, bit) == IF bit[1] = 0 \/ v[1] = 0 THEN <<0, 0>> ELSE v

\* An entry times 0.5, and an entry divided by 0.5.
times_half(v) == IF v[1] = 0 THEN v ELSE <<v[1], v[2] - 1>>
by_half(v) == IF v[1] = 0 THEN v ELSE <<v[1], v[2] + 1>>

InitOverfit ==
    /\ namespace = {}
    /\ layer_output = NoArray
    /\ layer_input = NoArray
    /\ ocell = "none"
    /\ oerror = "none"
    /\ VecIdle
    /\ PadIdle
    /\ KernelIdle
    /\ LabIdle
    /\ LoadIdle
    /\ BatchIdle

\* from keras.datasets import imdb; import numpy as np; load_data;
\* vectorize_sequences; x_train ... y_test
OverfitLoad ==
    /\ ocell' = "load"
    /\ \E fetched \in BOOLEAN :
          IF fetched
          THEN /\ namespace' = namespace \cup
                      {"imdb", "np", "train_data", "train_labels", "test_data",
                       "test_labels", "vectorize_sequences", "x_train", "x_test",
                       "y_train", "y_test"}
               /\ oerror' = "none"
          ELSE /\ namespace' = namespace \cup {"imdb", "np"}
               /\ oerror' = "Exception"
    /\ UNCHANGED <<layer_output, layer_input, vvars, pvars, kvars, lvars, dvars, bvars>>

\* An empty cell: nothing is executed.
OverfitFit ==
    /\ \E c \in FitCells : ocell' = c
    /\ oerror' = "none"
    /\ UNCHANGED <<namespace, layer_output, layer_input,
                   vvars, pvars, kvars, lvars, dvars, bvars>>

\* epochs = range(1, 21)
\* original_val_loss = #TO DO: ...
\* plt.plot(epochs, #TO DO: ..., 'b+', label='Original model')
\* A cell with #TO DO for an expression does not parse; none of its
\* statements is executed.
OverfitCompare ==
    /\ \E c \in ComparisonCells : ocell' = c
    /\ oerror' = "SyntaxError"
    /\ UNCHANGED <<namespace, layer_output, layer_input,
                   vvars, pvars, kvars, lvars, dvars, bvars>>

\* from keras import regularizers; regularizers.l1(0.001); ...
OverfitRegularizers ==
    /\ ocell' = "regularizers"
    /\ namespace' = namespace \cup {"regularizers"}
    /\ oerror' = "none"
    /\ UNCHANGED <<layer_output, layer_input, vvars, pvars, kvars, lvars, dvars, bvars>>

\* batch_size = 512; features = 10
\* layer_output = np.array([batch_size, features]); print(layer_output)
\* layer_output = np.random.randint(0, high=2, size=layer_output.shape)
DropoutCell ==
    /\ ocell' = "dropout"
    /\ IF "np" \in namespace
       THEN /\ layer_input' = np_array(<<512, 10>>)
            /\ layer_output' \in randint(layer_input'.shape)
            /\ namespace' = namespace \cup {"batch_size", "features", "layer_output"}
            /\ oerror' = "none"
       ELSE /\ namespace' = namespace \cup {"batch_size", "features"}
            /\ oerror' = "NameError"
            /\ UNCHANGED <<layer_output, layer_input>>
    /\ UNCHANGED <<vvars, pvars, kvars, lvars, dvars, bvars>>

\* layer_output = layer_output*0.5
TestTimeCell ==
    /\ \A k \in DOMAIN layer_output.data : layer_output.data[k][2] > 0 - MaxScale
    /\ ocell' = "test_time"
    /\ IF "layer_output" \in namespace
       THEN /\ layer_output' =
                  [layer_output EXCEPT
                      !.dtype = "float",
                      !.data = [k \in DOMAIN @ |-> times_half(@[k])]]
            /\ oerror' = "none"
       ELSE /\ oerror' = "NameError"
            /\ UNCHANGED layer_output
    /\ UNCHANGED <<namespace, layer_input, vvars, pvars, kvars, lvars, dvars, bvars>>

\* layer_output *= np.random.randint(0, high=2, size=layer_output.shape)
\* layer_output /= 0.5
\* The division in place of an array of integers raises TypeError, after
\* the multiplication has been done.
ScaleUpCell ==
    /\ \A k \in DOMAIN layer_output.data : layer_output.data[k][2] < MaxScale
    /\ ocell' = "scale_up"
    /\ IF "layer_output" \in namespace
       THEN \E mask \in randint(layer_output.shape) :
               LET masked == [k \in DOMAIN layer_output.data |->
                                 times(layer_output.data[k], mask.data[k])]
               IN  /\ layer_input' = layer_output
                   /\ IF layer_output.dtype = "int"
                      THEN /\ layer_output' = [layer_output EXCEPT !.data = masked]
                           /\ oerror' = "TypeError"
                      ELSE /\ layer_output' =
                                 [layer_output EXCEPT
                                     !.data = [k \in DOMAIN masked |->
                                                  by_half(masked[k])]]
                           /\ oerror' = "none"
       ELSE /\ oerror' = "NameError"
            /\ UNCHANGED <<layer_output, layer_input>>
    /\ UNCHANGED <<namespace, vvars, pvars, kvars, lvars, dvars, bvars>>

NextOverfit ==
    \/ OverfitLoad \/ OverfitFit \/ OverfitCompare \/ OverfitRegularizers
    \/ DropoutCell \/ TestTimeCell \/ ScaleUpCell

SpecOverfit == InitOverfit /\ [][NextOverfit]_vars

-----------------------------------------------------------------------------
(* Spec: the kernel session of a notebook.  A cell is executed when the    *)
(* kernel is idle; its statements run in order, and the first one that     *)
(* raises ends the cell, the bindings made before it kept.  The execution  *)
(* counts recorded in the notebooks (In[13] and In[40] for the compile     *)
(* cells, In[16] for the split cell, In[10] for the fit cell below them;   *)
(* In[12] for a plot cell below the In[13] compile cell) show the cells    *)
(* run, and run again, in an order that is not the document's, so any cell *)
(* may be the next one executed.                                            *)

\* The number of training reviews of the dataset.
train_samples == 25000

Notebooks == {"ClassificationNN", "RNN"}

\* The code cells of the executed ClassificationNN notebook, in document order.
ClassificationCells ==
    <<"load", "vectorize", "labels", "imports", "build", "compile_adam",
      "compile_sgd", "compile_mse", "split", "fit", "plot">>

\* The code cells of the recurrent-networks notebook up to the LSTM
\* exercise, in document order.
RnnCells ==
    <<"rnn_imports", "stack_create", "stack_add", "stack_add3", "rnn_load", "rnn_build", "rnn_compile", "rnn_fit",
      "rnn_plot", "rnn_lstm">>

CellsOf(nb) == IF nb = "ClassificationNN" THEN ClassificationCells ELSE RnnCells

\* The place of a cell in its notebook (0 for no cell).
DocIndex(nb, c) ==
    IF \E k \in 1..Len(CellsOf(nb)) : CellsOf(nb)[k] = c
    THEN CHOOSE k \in 1..Len(CellsOf(nb)) : CellsOf(nb)[k] = c
    ELSE 0

Init ==
    /\ notebook \in Notebooks
    /\ bound = {}
    /\ shape = [a \in Arrays |-> NoShape]
    /\ model = NoModel
    /\ fit = NoFit
    /\ callback = NoHistory
    /\ history = NoHistory
    /\ last_cell = "none"
    /\ last_error = "none"
    /\ in_order = TRUE
    /\ test_model = <<>>
    /\ summary = 0
    /\ VecIdle
    /\ PadIdle
    /\ LabIdle
    /\ ExtraIdle

\* The kernel executes one cell at a time.
Idle == ~fit.active

\* The cell c starts in notebook nb.
Starts(nb, c) ==
    /\ notebook = nb
    /\ Idle
    /\ last_cell' = c
    /\ in_order' = (in_order /\ DocIndex(nb, c) = DocIndex(nb, last_cell) + 1)

Rows(a) == shape[a][1]
Cols(a) == shape[a][2]

\* A Dense layer built without its activation argument: activation=None.
Dense_no_activation(units, activation) ==
    [type |-> "Dense", units |-> units, activation |-> "linear"]

Dense(units, activation) ==
    [type |-> "Dense", units |-> units, activation |-> activation]

\* ---- ClassificationNN ----------------------------------------------------

\* (train_data, train_labels), (test_data, test_labels) =
\*     imdb.load_data(num_words=10000)
\* The download of the dataset may fail; the names are then left unbound.
RunLoad ==
    /\ Starts("ClassificationNN", "load")
    /\ \E fetched \in BOOLEAN :
          IF fetched
          THEN /\ bound' = bound \cup {"imdb", "train_data", "train_labels",
                                       "test_data", "test_labels"}
               /\ shape' = [shape EXCEPT !["train_data"] = <<train_samples, 0>>,
                                         !["train_labels"] = <<train_samples, 0>>]
               /\ last_error' = "none"
          ELSE /\ bound' = bound \cup {"imdb"}
               /\ shape' = shape
               /\ last_error' = "Exception"
    /\ UNCHANGED <<notebook, model, fit, callback, history, tvars, vvars, pvars, lvars, xvars>>

\* import numpy as np; def vectorize_sequences ...;
\* x_train = vectorize_sequences(train_data); x_test = ...(test_data)
RunVectorize ==
    /\ Starts("ClassificationNN", "vectorize")
    /\ IF "train_data" \in bound
       THEN /\ bound' = bound \cup {"np", "vectorize_sequences", "x_train", "x_test"}
            /\ shape' = [shape EXCEPT !["x_train"] = <<Rows("train_data"), 10000>>]
            /\ last_error' = "none"
       ELSE /\ bound' = bound \cup {"np", "vectorize_sequences"}
            /\ shape' = shape
            /\ last_error' = "NameError"
    /\ UNCHANGED <<notebook, model, fit, callback, history, tvars, vvars, pvars, lvars, xvars>>

\* y_train = np.asarray(train_labels).astype('float32'); y_test = ...
RunLabels ==
    /\ Starts("ClassificationNN", "labels")
    /\ IF {"np", "train_labels"} \subseteq bound
       THEN /\ bound' = bound \cup {"y_train", "y_test"}
            /\ shape' = [shape EXCEPT !["y_train"] = <<Rows("train_labels"), 0>>]
            /\ last_error' = "none"
       ELSE /\ UNCHANGED <<bound, shape>>
            /\ last_error' = "NameError"
    /\ UNCHANGED <<notebook, model, fit, callback, history, tvars, vvars, pvars, lvars, xvars>>

\* from keras import models; from keras import layers
RunImports ==
    /\ Starts("ClassificationNN", "imports")
    /\ bound' = bound \cup {"models", "layers"}
    /\ last_error' = "none"
    /\ UNCHANGED <<notebook, shape, model, fit, callback, history, tvars, vvars, pvars, lvars, xvars>>

\* model = models.Sequential(); model.add(layers.Dense(16, activation='relu',
\* input_shape=(10000,))); model.add(layers.Dense(16, activation='relu'));
\* model.add(layers.Dense(1, activation='sigmoid'))
RunBuild ==
    /\ Starts("ClassificationNN", "build")
    /\ IF {"models", "layers"} \subseteq bound
       THEN /\ bound' = bound \cup {"model"}
            /\ model' = [NoModel EXCEPT
                            !.layers = <<Dense(16, "relu"), Dense(16, "relu"),
                                         Dense(1, "sigmoid")>>,
                            !.input_shape = 10000]
            /\ last_error' = "none"
       ELSE /\ UNCHANGED <<bound, model>>
            /\ last_error' = "NameError"
    /\ UNCHANGED <<notebook, shape, fit, callback, history, tvars, vvars, pvars, lvars, xvars>>

\* A compile that adds the metrics of the call to those the model has.
compile_adding_metrics(m, optimizer, loss, metrics) ==
    [m EXCEPT !.compiled = TRUE, !.optimizer = optimizer, !.loss = loss,
              !.metrics = @ \o metrics]

\* model.compile(optimizer, loss, metrics) on a bound model: the optimizer,
\* the loss and the metrics of the call replace those of the model.
compile(m, optimizer, loss, metrics) ==
    [m EXCEPT !.compiled = TRUE, !.optimizer = optimizer, !.loss = loss,
              !.metrics = metrics]

\* model.compile(optimizer='adam', loss='binary_crossentropy',
\*               metrics=['accuracy'])
RunCompileAdam ==
    /\ Starts("ClassificationNN", "compile_adam")
    /\ IF "model" \in bound
       THEN /\ model' = compile(model, "adam", "binary_crossentropy", <<"accuracy">>)
            /\ last_error' = "none"
       ELSE /\ model' = model
            /\ last_error' = "NameError"
    /\ UNCHANGED <<notebook, bound, shape, fit, callback, history, tvars, vvars, pvars, lvars, xvars>>

\* from keras import optimizers; sgd = optimizers.SGD(lr=0.01, clipnorm=1.)
\* model.compile(optimizer=sgd, loss='binary_crossentropy',
\*               metrics=['accuracy'])
RunCompileSGD ==
    /\ Starts("ClassificationNN", "compile_sgd")
    /\ bound' = bound \cup {"optimizers", "sgd"}
    /\ IF "model" \in bound
       THEN /\ model' = compile(model, "SGD(lr=0.01, clipnorm=1.)",
                                "binary_crossentropy", <<"accuracy">>)
            /\ last_error' = "none"
       ELSE /\ model' = model
            /\ last_error' = "NameError"
    /\ UNCHANGED <<notebook, shape, fit, callback, history, tvars, vvars, pvars, lvars, xvars>>

\* from keras import metrics
\* model.compile(loss='mean_squared_error', optimizer='sgd',
\*               metrics=[metrics.mae, metrics.binary_accuracy])
RunCompileMSE ==
    /\ Starts("ClassificationNN", "compile_mse")
    /\ bound' = bound \cup {"metrics"}
    /\ IF "model" \in bound
       THEN /\ model' = compile(model, "sgd", "mean_squared_error",
                                <<"mae", "binary_accuracy">>)
            /\ last_error' = "none"
       ELSE /\ model' = model
            /\ last_error' = "NameError"
    /\ UNCHANGED <<notebook, shape, fit, callback, history, tvars, vvars, pvars, lvars, xvars>>

\* import numpy as np; import pandas as pd;
\* from sklearn.model_selection import train_test_split
\* XTRAIN = pd.DataFrame(x_train)
\* x_data, x_val, y_data, y_val = train_test_split(XTRAIN, train_size = 0.60)
\* The last statement never binds its four targets: the call raises the
\* recorded MemoryError, and where memory suffices it returns the two parts
\* of its one argument, which do not unpack into four names (ValueError).
RunSplit ==
    /\ Starts("ClassificationNN", "split")
    /\ IF "x_train" \in bound
       THEN /\ bound' = bound \cup {"np", "pd", "train_test_split", "XTRAIN"}
            /\ shape' = [shape EXCEPT !["XTRAIN"] = shape["x_train"]]
            /\ last_error' \in {"MemoryError", "ValueError"}
       ELSE /\ bound' = bound \cup {"np", "pd", "train_test_split"}
            /\ shape' = shape
            /\ last_error' = "NameError"
    /\ UNCHANGED <<notebook, model, fit, callback, history, tvars, vvars, pvars, lvars, xvars>>

\* The split cell as it was when the fit cell below it ran (In[10]): its two
\* last lines, now commented out,
\*     val_data = x_train[10000]
\*     retrain_data = x_train[10001:25000]
\* x_train[10000] is one row of the matrix: an array of as many entries as
\* x_train has columns.
RunSplitEarlier ==
    /\ Starts("ClassificationNN", "split")
    /\ IF "x_train" \notin bound
       THEN /\ UNCHANGED <<bound, shape>>
            /\ last_error' = "NameError"
       ELSE IF Rows("x_train") <= 10000
       THEN /\ UNCHANGED <<bound, shape>>
            /\ last_error' = "IndexError"
       ELSE /\ bound' = bound \cup {"val_data", "retrain_data"}
            /\ shape' = [shape EXCEPT
                  !["val_data"] = <<Cols("x_train"), 0>>,
                  !["retrain_data"] =
                      <<(IF Rows("x_train") < 25000 THEN Rows("x_train") ELSE 25000)
                            - 10001, Cols("x_train")>>]
            /\ last_error' = "none"
    /\ UNCHANGED <<notebook, model, fit, callback, history, tvars, vvars, pvars, lvars, xvars>>

\* What model.fit(x, y, ...) raises before the first epoch: RuntimeError for a
\* model that was not compiled, ValueError for inputs and targets of
\* different numbers of samples.
fit_check_uncompiled(m, x, y) ==
    IF x # y THEN "ValueError" ELSE "none"

fit_check(m, x, y) ==
    IF ~m.compiled THEN "RuntimeError"
    ELSE IF x # y THEN "ValueError"
    ELSE "none"

\* A fit that holds out the fraction validation_split for training and
\* trains on the rest's complement: the two parts exchanged.
fit_call_split_exchanged(m, x, y, epochs, batch_size, tenths) ==
    LET split_at == (x * tenths) \div 10
    IN  [called |-> TRUE,
         active |-> fit_check(m, x, y) = "none",
         x |-> x, y |-> y, epochs |-> epochs, batch_size |-> batch_size,
         validation |-> tenths > 0,
         train_n |-> split_at, val_n |-> x - split_at,
         epoch |-> 0]

\* The record of a call model.fit(x, y, epochs, batch_size, validation_split
\* = tenths/10) on arrays of x and y samples: with a validation split the last
\* samples are held out, split_at = int(len(x) * (1 - validation_split)).
fit_call(m, x, y, epochs, batch_size, tenths) ==
    LET split_at == (x * (10 - tenths)) \div 10
    IN  [called |-> TRUE,
         active |-> fit_check(m, x, y) = "none",
         x |-> x, y |-> y, epochs |-> epochs, batch_size |-> batch_size,
         validation |-> tenths > 0,
         train_n |-> split_at, val_n |-> x - split_at,
         epoch |-> 0]

\* model.fit(x_train, val_data, epochs=20, batch_size=512)
RunFit ==
    /\ Starts("ClassificationNN", "fit")
    /\ IF {"model", "x_train", "val_data"} \subseteq bound
       THEN /\ fit' = fit_call(model, Rows("x_train"), Rows("val_data"), 20, 512, 0)
            /\ callback' = NoHistory
            /\ last_error' = fit_check(model, Rows("x_train"), Rows("val_data"))
       ELSE /\ UNCHANGED <<fit, callback>>
            /\ last_error' = "NameError"
    /\ UNCHANGED <<notebook, bound, shape, model, history, tvars, vvars, pvars, lvars, xvars>>

\* import matplotlib.pyplot as plt
\* acc = #TO DO: ...
\* The cell does not parse; none of its statements is executed.
RunPlot ==
    /\ Starts("ClassificationNN", "plot")
    /\ last_error' = "SyntaxError"
    /\ UNCHANGED <<notebook, bound, shape, model, fit, callback, history, tvars, vvars, pvars, lvars, xvars>>

\* ---- The SimpleRNN exercise of the recurrent-networks notebook ----------

Layer(type, units, activation) ==
    [type |-> type, units |-> units, activation |-> activation]

\* Embedding(input_dim, output_dim)
EmbeddingLayer(input_dim, output_dim) ==
    [type |-> "Embedding", units |-> output_dim, activation |-> "linear",
     input_dim |-> input_dim]

\* A SimpleRNN built without its return_sequences argument: the default,
\* return_sequences=False.
SimpleRNN_last_output(units, return_sequences) ==
    [type |-> "SimpleRNN", units |-> units, activation |-> "tanh",
     return_sequences |-> FALSE]

\* SimpleRNN(units, return_sequences=...)
SimpleRNN(units, return_sequences) ==
    [type |-> "SimpleRNN", units |-> units, activation |-> "tanh",
     return_sequences |-> return_sequences]

\* The number of axes of the output of a layer on an input of ndim axes: an
\* Embedding adds one to the 2D tensor of indices, a SimpleRNN returns its
\* full sequences (3D) or its last output alone (2D), a Dense keeps them.
output_ndim(layer, ndim) ==
    IF layer.type = "Embedding" THEN 3
    ELSE IF layer.type = "SimpleRNN"
         THEN (IF layer.return_sequences THEN 3 ELSE 2)
         ELSE ndim

\* The number of axes of the output of the first n layers of a stack fed
\* with the 2D tensor of indices.
RECURSIVE stack_ndim(_, _)
stack_ndim(layers, n) ==
    IF n = 0 THEN 2 ELSE output_ndim(layers[n], stack_ndim(layers, n - 1))

\* Sequential.add calls the new layer on the output of the stack: a
\* SimpleRNN takes a 3D input alone (ValueError: expected ndim=3).
can_add(layers, layer) ==
    layer.type = "SimpleRNN" => stack_ndim(layers, Len(layers)) = 3

\* The add calls of a cell, one after the other up to the first that raises.
RECURSIVE add_each(_, _)
add_each(layers, new) ==
    IF new = <<>> THEN layers
    ELSE IF can_add(layers, Head(new))
         THEN add_each(Append(layers, Head(new)), Tail(new))
         ELSE layers

\* The Param # of a layer on an input of width w, without the bias terms.
layer_params_no_bias(layer, w) ==
    IF layer.type = "Embedding" THEN layer.input_dim * layer.units
    ELSE IF layer.type = "SimpleRNN" THEN layer.units * (w + layer.units)
    ELSE layer.units * w

\* The Param # column of summary(): the table of an Embedding, the kernel,
\* the recurrent kernel and the bias of a SimpleRNN, the kernel and the
\* bias of a Dense, on an input of width w.
layer_params(layer, w) ==
    IF layer.type = "Embedding" THEN layer.input_dim * layer.units
    ELSE IF layer.type = "SimpleRNN" THEN layer.units * (w + layer.units + 1)
    ELSE layer.units * (w + 1)

\* The sum of the Param # of the first n layers; the width of the input
\* of a layer is the number of units of the layer before it.
RECURSIVE params_upto(_, _)
params_upto(layers, n) ==
    IF n = 0 THEN 0
    ELSE params_upto(layers, n - 1)
         + layer_params(layers[n], IF n = 1 THEN 0 ELSE layers[n - 1].units)

\* Total params of summary()
total_params(layers) == params_upto(layers, Len(layers))

\* test_model = Sequential(); test_model.add(Embedding(10000,32))
RunStackCreate ==
    /\ Starts("RNN", "stack_create")
    /\ IF {"Sequential", "Embedding"} \subseteq bound
       THEN /\ bound' = bound \cup {"test_model"}
            /\ test_model' = <<EmbeddingLayer(10000, 32)>>
            /\ last_error' = "none"
       ELSE /\ UNCHANGED <<bound, test_model>>
            /\ last_error' = "NameError"
    /\ UNCHANGED <<notebook, shape, model, fit, callback, history, summary,
                   vvars, pvars, lvars, xvars>>

\* The cell made of the add calls new, followed by test_model.summary().
StackAddCell(new) ==
    LET added == add_each(test_model, new)
    IN  IF "test_model" \notin bound
        THEN /\ UNCHANGED <<test_model, summary>>
             /\ last_error' = "NameError"
        ELSE /\ test_model' = added
             /\ IF Len(added) = Len(test_model) + Len(new)
                THEN /\ summary' = total_params(added)
                     /\ last_error' = "none"
                ELSE /\ summary' = summary
                     /\ last_error' = "ValueError"

\* test_model.add(SimpleRNN(32,return_sequences = True)); test_model.summary()
RunStackAdd ==
    /\ Starts("RNN", "stack_add")
    /\ Len(test_model) + 1 <= MaxStackLayers
    /\ StackAddCell(<<SimpleRNN(32, TRUE)>>)
    /\ UNCHANGED <<notebook, bound, shape, model, fit, callback, history,
                   vvars, pvars, lvars, xvars>>

\* test_model.add(SimpleRNN(32,return_sequences = True)), three times;
\* test_model.summary()
RunStackAdd3 ==
    /\ Starts("RNN", "stack_add3")
    /\ Len(test_model) + 3 <= MaxStackLayers
    /\ StackAddCell(<<SimpleRNN(32, TRUE), SimpleRNN(32, TRUE), SimpleRNN(32, TRUE)>>)
    /\ UNCHANGED <<notebook, bound, shape, model, fit, callback, history,
                   vvars, pvars, lvars, xvars>>

\* from keras.layers import Embedding, Dense; from keras.layers import
\* SimpleRNN; from keras.models import Sequential
RunRnnImports ==
    /\ Starts("RNN", "rnn_imports")
    /\ bound' = bound \cup {"Embedding", "Dense", "SimpleRNN", "Sequential"}
    /\ last_error' = "none"
    /\ UNCHANGED <<notebook, shape, model, fit, callback, history, tvars, vvars, pvars, lvars, xvars>>

\* max_features = 10000; maxlen = 500; batch_size = 32
\* (input_train, y_train), (input_test, y_test) =
\*     imdb.load_data(num_words=max_features)
\* input_train = sequence.pad_sequences(input_train, maxlen=maxlen)
\* input_test = sequence.pad_sequences(input_test, maxlen=maxlen)
\* The download of the dataset may fail; the arrays are then left unbound.
RunRnnLoad ==
    /\ Starts("RNN", "rnn_load")
    /\ \E fetched \in BOOLEAN :
          IF fetched
          THEN /\ bound' = bound \cup {"imdb", "sequence", "np", "max_features",
                                       "maxlen", "batch_size", "input_train",
                                       "y_train", "input_test", "y_test"}
               /\ shape' = [shape EXCEPT !["input_train"] = <<train_samples, 500>>,
                                         !["y_train"] = <<train_samples, 0>>]
               /\ last_error' = "none"
          ELSE /\ bound' = bound \cup {"imdb", "sequence", "np", "max_features",
                                       "maxlen", "batch_size"}
               /\ shape' = shape
               /\ last_error' = "Exception"
    /\ UNCHANGED <<notebook, model, fit, callback, history, tvars, vvars, pvars, lvars, xvars>>

\* model = Sequential(); model.add(Embedding(max_features,32));
\* model.add(SimpleRNN(32)); model.add(Dense(1, activation='sigmoid'))
\* max_features is bound by the load cell: without it the cell stops after
\* its first statement, the name model bound to a network of no layers.
RunRnnBuild ==
    /\ Starts("RNN", "rnn_build")
    /\ IF "Sequential" \notin bound
       THEN /\ UNCHANGED <<bound, model>>
            /\ last_error' = "NameError"
       ELSE IF "max_features" \notin bound
       THEN /\ bound' = bound \cup {"model"}
            /\ model' = NoModel
            /\ last_error' = "NameError"
       ELSE /\ bound' = bound \cup {"model"}
            /\ model' = [NoModel EXCEPT !.layers =
                            <<EmbeddingLayer(max_features, 32),
                              SimpleRNN(32, FALSE),
                              Layer("Dense", 1, "sigmoid")>>]
            /\ last_error' = "none"
    /\ UNCHANGED <<notebook, shape, fit, callback, history, tvars, vvars, pvars, lvars, xvars>>

\* model.compile(loss = 'binary_crossentropy', optimizer = 'rmsprop',
\*               metrics = ['acc'])
RunRnnCompile ==
    /\ Starts("RNN", "rnn_compile")
    /\ IF "model" \in bound
       THEN /\ model' = compile(model, "rmsprop", "binary_crossentropy", <<"acc">>)
            /\ last_error' = "none"
       ELSE /\ model' = model
            /\ last_error' = "NameError"
    /\ UNCHANGED <<notebook, bound, shape, fit, callback, history, tvars, vvars, pvars, lvars, xvars>>

\* model.summary()
\* history = model.fit(input_train, y_train, epochs = 10, batch_size = 32,
\*                     validation_split = 0.3)
\* summary() raises ValueError on a network of no layers, which is not built.
RunRnnFit ==
    /\ Starts("RNN", "rnn_fit")
    /\ IF "model" \notin bound
       THEN /\ UNCHANGED <<fit, callback>>
            /\ last_error' = "NameError"
       ELSE IF model.layers = <<>>
       THEN /\ UNCHANGED <<fit, callback>>
            /\ last_error' = "ValueError"
       ELSE IF ~({"input_train", "y_train"} \subseteq bound)
       THEN /\ UNCHANGED <<fit, callback>>
            /\ last_error' = "NameError"
       ELSE /\ fit' = fit_call(model, Rows("input_train"), Rows("y_train"), 10, 32, 3)
            /\ callback' = NoHistory
            /\ last_error' = fit_check(model, Rows("input_train"), Rows("y_train"))
    /\ summary' = IF "model" \in bound /\ model.layers # <<>>
                  THEN total_params(model.layers) ELSE summary
    /\ UNCHANGED <<notebook, bound, shape, model, history, test_model,
                   vvars, pvars, lvars, xvars>>

\* import matplotlib.pyplot as plt; acc = history.history['acc'] ...
\* plt.plot(epochs,acc<fullwidth parenthesis> ...
\* The cell does not parse (the recorded SyntaxError: invalid character in
\* identifier); none of its statements is executed.
RunRnnPlot ==
    /\ Starts("RNN", "rnn_plot")
    /\ last_error' = "SyntaxError"
    /\ UNCHANGED <<notebook, bound, shape, model, fit, callback, history, tvars, vvars, pvars, lvars, xvars>>

\* from keras.layers import LSTM
\* model1.add()
\* No cell binds the name model1: the second statement raises NameError.
RunRnnLstm ==
    /\ Starts("RNN", "rnn_lstm")
    /\ bound' = bound \cup {"LSTM"}
    /\ last_error' = "NameError"
    /\ UNCHANGED <<notebook, shape, model, fit, callback, history, tvars, vvars, pvars, lvars, xvars>>

\* ---- The running fit -----------------------------------------------------

\* As on_epoch_end, but the validation metrics are not recorded.
on_epoch_end_no_validation(h, epoch, validation) ==
    [h EXCEPT !.loss = Append(@, epoch), !.acc = Append(@, epoch)]

\* The History callback at the end of an epoch: the epoch's value of every
\* metric of the logs is appended to the metric's list (the value of a metric
\* at epoch e is written e).  The validation metrics are in the logs when
\* the fit holds validation data.
on_epoch_end(h, epoch, validation) ==
    IF validation
    THEN [loss |-> Append(h.loss, epoch), acc |-> Append(h.acc, epoch),
          val_loss |-> Append(h.val_loss, epoch),
          val_acc |-> Append(h.val_acc, epoch)]
    ELSE [h EXCEPT !.loss = Append(@, epoch), !.acc = Append(@, epoch)]

\* One epoch of the running fit: Epoch e/epochs of the recorded output.
FitEpoch ==
    /\ fit.active
    /\ fit.epoch < fit.epochs
    /\ fit' = [fit EXCEPT !.epoch = @ + 1]
    /\ callback' = on_epoch_end(callback, fit.epoch + 1, fit.validation)
    /\ UNCHANGED <<notebook, bound, shape, model, history, last_cell, last_error,
                   in_order, tvars, vvars, pvars, lvars, xvars>>

\* fit returns its History after the last epoch; the fit cell of the
\* SimpleRNN exercise binds it to the name history, the fit cell of
\* ClassificationNN drops it.
FitReturn ==
    /\ fit.active
    /\ fit.epoch = fit.epochs
    /\ fit' = [fit EXCEPT !.active = FALSE]
    /\ IF last_cell = "rnn_fit"
       THEN /\ history' = callback
            /\ bound' = bound \cup {"history"}
       ELSE UNCHANGED <<history, bound>>
    /\ UNCHANGED <<notebook, shape, model, callback, last_cell, last_error,
                   in_order, tvars, vvars, pvars, lvars, xvars>>

\* The running cell is interrupted (the fit cell of the SimpleRNN exercise was
\* saved in the middle of its second epoch, with no execution count): the
\* call does not return and the assignment is not made.
InterruptFit ==
    /\ fit.active
    /\ fit' = [fit EXCEPT !.active = FALSE]
    /\ last_error' = "KeyboardInterrupt"
    /\ UNCHANGED <<notebook, bound, shape, model, callback, history, last_cell,
                   in_order, tvars, vvars, pvars, lvars, xvars>>

Next ==
    \/ RunLoad \/ RunVectorize \/ RunLabels \/ RunImports \/ RunBuild
    \/ RunCompileAdam \/ RunCompileSGD \/ RunCompileMSE
    \/ RunSplit \/ RunSplitEarlier \/ RunFit \/ RunPlot
    \/ RunRnnImports \/ RunRnnLoad \/ RunRnnBuild \/ RunRnnCompile
    \/ RunRnnFit \/ RunRnnPlot \/ RunRnnLstm
    \/ RunStackCreate \/ RunStackAdd \/ RunStackAdd3
    \/ FitEpoch \/ FitReturn \/ InterruptFit

Spec == Init /\ [][Next]_vars

-----------------------------------------------------------------------------
\* C1: for every list of N reviews with word indices in 0..dimension-1,
\* vectorize_sequences returns an N x dimension matrix of 0.0 and 1.0 whose
\* entry (i, j) is 1.0 exactly when word index j occurs in review i.
C1_MultiHot ==
    vpc = "vectorized" =>
        /\ Len(x_train) = Len(train_data)
        /\ \A i \in 1..Len(train_data) :
              /\ DOMAIN x_train[i] = 0..(dimension - 1)
              /\ \A j \in 0..(dimension - 1) :
                    /\ x_train[i][j] \in {0, 1}
                    /\ x_train[i][j] = 1 <=>
                          \E k \in 1..Len(train_data[i]) : train_data[i][k] = j

\* Two reviews were vectorized, one repeating a word index and leaving
\* another index out, the other empty.
C1_Witness ==
    /\ vpc = "vectorized"
    /\ dimension = 2
    /\ train_data = << <<1, 1>>, <<>> >>
    /\ x_train[1][1] = 1
    /\ x_train[1][0] = 0

\* C2: padding/truncating any review, the empty one and those longer than
\* L included, to length L gives exactly L integers, so the padded array has
\* shape (N, L) for L = maxlen.
C2_PaddedShape ==
    ppc \in {"padded", "embedded"} =>
        /\ Len(padded) = Len(input_train)
        /\ \A i \in 1..Len(padded) :
              /\ DOMAIN padded[i] = 1..maxlen
              /\ \A k \in 1..maxlen : padded[i][k] \in Int

\* An empty review and a review longer than maxlen were padded together.
C2_Witness ==
    /\ ppc = "padded"
    /\ maxlen = 2
    /\ Len(input_train) = 2
    /\ input_train[1] = <<>>
    /\ Len(input_train[2]) = 3
    /\ Len(padded[1]) = 2
    /\ Len(padded[2]) = 2

C4_EqualSampleCounts ==
    fit.called => fit.x = fit.y

\* C5: after the validation-set cell has run on the encoded features, the
\* validation set is a pair x_val, y_val of as many feature rows as labels,
\* and so is the remaining training pair x_data, y_data; no validation data
\* is a slice of the feature matrix alone.
C5_ValidationPair ==
    (last_cell = "split" /\ "x_train" \in bound) =>
        /\ {"x_val", "y_val", "x_data", "y_data"} \subseteq bound
        /\ Rows("x_val") = Rows("y_val")
        /\ Rows("x_data") = Rows("y_data")
        /\ "val_data" \notin bound

\* C6: the validation-set cell of ClassificationNN, run on the 25,000 encoded
\* training reviews, leaves a validation set of exactly 10,000 samples and a
\* training set of the 15,000 others.
C6_ValidationSizes ==
    (last_cell = "split" /\ "x_train" \in bound /\ Rows("x_train") = train_samples) =>
        /\ {"x_val", "x_data"} \subseteq bound
        /\ Rows("x_val") = 10000
        /\ Rows("x_data") = train_samples - 10000

\* The names of the four series of a History.
Metrics == {"loss", "acc", "val_loss", "val_acc"}

C8_EmbeddingShapes ==
    /\ ppc # "error"
    /\ ppc \in {"padded", "embedded"} =>
          /\ Len(padded) = Len(input_train)
          /\ \A i \in 1..Len(padded) :
                /\ Len(padded[i]) = maxlen
                /\ \A t \in 1..maxlen : padded[i][t] \in 0..(max_features - 1)
    /\ ppc = "embedded" =>
          /\ Len(embedded) = Len(input_train)
          /\ \A i \in 1..Len(embedded) :
                /\ Len(embedded[i]) = maxlen
                /\ \A t \in 1..maxlen :
                      /\ Len(embedded[i][t]) = embedding_dim
                      /\ \A d \in 1..embedding_dim :
                            embedded[i][t][d] = <<padded[i][t], d>>

\* Two reviews, one filled up with the sentinel and one cut, were embedded.
C8_Witness ==
    /\ ppc = "embedded"
    /\ maxlen = 2
    /\ Len(input_train) = 2
    /\ Len(input_train[1]) = 1
    /\ Len(input_train[2]) = 3
    /\ Len(embedded) = 2
    /\ Len(embedded[1]) = 2
    /\ Len(embedded[1][1]) = 8
    /\ embedded[1][1][1] = <<0, 1>>

\* C9: the cells of a notebook run in document order, each to completion: a
\* cell starts only after a cell that stands before it in the document, and
\* only when the cell before it ended without an error.
C9_DocumentOrder ==
    [][last_cell' # last_cell =>
          /\ DocIndex(notebook, last_cell') > DocIndex(notebook, last_cell)
          /\ last_error = "none"]_vars

C11_FittedWithCrossEntropy ==
    (notebook = "ClassificationNN" /\ in_order /\ last_cell = "fit") =>
        /\ model.loss = "binary_crossentropy"
        /\ model.metrics = <<"accuracy">>

\* C12: the model the build cell of ClassificationNN binds is the stack
\* Dense(16, relu), Dense(16, relu), Dense(1, sigmoid) and nothing else, and
\* the input width it declares, 10000, is the number of columns of the
\* multi-hot matrix x_train.
C12_DeclaredStack ==
    (notebook = "ClassificationNN" /\ "model" \in bound) =>
        /\ model.layers =
              <<[type |-> "Dense", units |-> 16, activation |-> "relu"],
                [type |-> "Dense", units |-> 16, activation |-> "relu"],
                [type |-> "Dense", units |-> 1, activation |-> "sigmoid"]>>
        /\ model.input_shape = 10000
        /\ "x_train" \in bound => Cols("x_train") = model.input_shape

\* The model was built and the reviews were vectorized.
C12_Witness ==
    /\ notebook = "ClassificationNN"
    /\ {"model", "x_train"} \subseteq bound
    /\ Len(model.layers) = 3
    /\ Cols("x_train") = 10000

\* C13: a fit cell that has run in a session run in document order, with the
\* dataset fetched, and was not interrupted, has called model.fit, run
\* exactly its E epochs (10 in the SimpleRNN exercise, 20 in
\* ClassificationNN) and returned without an error.
C13_FitRunsItsEpochs ==
    (in_order /\ last_cell \in {"fit", "rnn_fit"} /\ ~fit.active
        /\ (\E d \in {"train_data", "input_train"} : d \in bound)
        /\ last_error # "KeyboardInterrupt") =>
        /\ fit.called
        /\ fit.epoch = fit.epochs
        /\ last_error = "none"

\* C14 (as stated): once the reviews are loaded, the name that
\* holds them holds the loaded reviews after every later step.
C14_NameKeepsReviews ==
    ppc # "idle" => name_of_reviews = input_train

\* C14 (amended): no step changes the list of reviews that was loaded:
\* vectorize_sequences leaves its argument as it was, and so does
\* pad_sequences, whose result is a new array (to which the pad cells then
\* rebind the name of the reviews).
C14_ReviewsNotMutated ==
    [][/\ vpc # "idle" => train_data' = train_data
       /\ ppc # "idle" => input_train' = input_train]_vars

\* A review of three words was cut to two; the loaded list still has it whole.
C14_Witness ==
    /\ ppc = "padded"
    /\ maxlen = 2
    /\ input_train = <<<<1, 1, 1>>>>
    /\ padded = <<<<1, 1>>>>

\* The set of the word indices of a review.
indices_of(review) == {review[k] : k \in 1..Len(review)}

\* C15: two reviews of one list that contain the same set of word indices,
\* in whatever order and however often repeated, get identical rows from
\* vectorize_sequences.
C15_OrderAndRepetitionDiscarded ==
    vpc = "vectorized" =>
        \A i, j \in 1..Len(train_data) :
            indices_of(train_data[i]) = indices_of(train_data[j]) =>
                x_train[i] = x_train[j]

\* A review and its reversal were vectorized to the same row.
C15_Witness ==
    /\ vpc = "vectorized"
    /\ train_data = <<<<0, 1>>, <<1, 0>>>>
    /\ x_train[1] = x_train[2]
    /\ x_train[1][0] = 1
    /\ x_train[1][1] = 1

\* C16: y_train and y_test have exactly one entry per loaded label, entry i
\* is the float32 of the value of label i, and every entry is 0 or 1.
C16_LabelsBinaryOneToOne ==
    lpc = "converted" =>
        /\ Len(y_train) = Len(train_labels)
        /\ Len(y_test) = Len(test_labels)
        /\ \A i \in 1..Len(y_train) :
              /\ y_train[i].dtype = "float32"
              /\ y_train[i].value = train_labels[i]
              /\ y_train[i].value \in {0, 1}
        /\ \A i \in 1..Len(y_test) :
              /\ y_test[i].dtype = "float32"
              /\ y_test[i].value = test_labels[i]
              /\ y_test[i].value \in {0, 1}

\* Labels of both values were converted, in their order.
C16_Witness ==
    /\ lpc = "converted"
    /\ train_labels = <<1, 0, 0>>
    /\ test_labels = <<0, 1, 1>>
    /\ Len(y_train) = 3
    /\ y_train[1].value = 1
    /\ y_test[1].value = 0

\* C17: the plot cell of the SimpleRNN exercise, run after the fit has
\* returned its history, ends without an error, with matplotlib imported and
\* the four series and their epochs read back from the history.
C17_PlotCompletes ==
    (last_cell = "rnn_plot" /\ "history" \in bound) =>
        /\ last_error = "none"
        /\ {"plt", "acc", "val_acc", "loss", "val_loss", "epochs"} \subseteq bound

\* C18: the fit cell of ClassificationNN, run in document order on the built
\* model and the vectorized reviews, calls model.fit for 20 epochs in
\* mini-batches of 512 samples with validation data.
C18_FitWithValidationSet ==
    (in_order /\ last_cell = "fit" /\ {"model", "x_train"} \subseteq bound) =>
        /\ fit.called
        /\ fit.epochs = 20
        /\ fit.batch_size = 512
        /\ fit.validation

\* The cells of the steps after Load: Configure, Compile, Fit and Plot.
LaterSteps ==
    {"build", "compile_adam", "compile_sgd", "compile_mse", "fit", "plot",
     "rnn_build", "rnn_compile", "rnn_fit", "rnn_plot"}

\* C19: when the fetch of the dataset has failed, no dataset variable is
\* bound, and no cell of a later step (Configure, Compile, Fit, Plot) is
\* executed after the failed load cell.
C19_LoadFailureIsFatal ==
    [][(last_cell \in {"load", "rnn_load"} /\ last_error = "Exception") =>
          /\ bound \cap {"train_data", "train_labels", "test_data", "test_labels",
                          "input_train", "y_train", "input_test", "y_test"} = {}
          /\ last_cell' \notin LaterSteps]_vars

\* C21: after a compile cell has run without an error the optimizer, the
\* loss and the metrics of the model are exactly those of that cell's call,
\* whatever compile cells ran before it; after the three compile cells of
\* ClassificationNN, the last of them the mean-squared-error one, they are
\* 'sgd', mean_squared_error and (mae, binary_accuracy).
C21_CompileLastWriterWins ==
    last_error = "none" =>
        /\ last_cell = "compile_adam" =>
              /\ model.optimizer = "adam"
              /\ model.loss = "binary_crossentropy"
              /\ model.metrics = <<"accuracy">>
        /\ last_cell = "compile_sgd" =>
              /\ model.optimizer = "SGD(lr=0.01, clipnorm=1.)"
              /\ model.loss = "binary_crossentropy"
              /\ model.metrics = <<"accuracy">>
        /\ last_cell = "compile_mse" =>
              /\ model.optimizer = "sgd"
              /\ model.loss = "mean_squared_error"
              /\ model.metrics = <<"mae", "binary_accuracy">>
        /\ last_cell = "rnn_compile" =>
              /\ model.optimizer = "rmsprop"
              /\ model.loss = "binary_crossentropy"
              /\ model.metrics = <<"acc">>

\* The three compile cells of ClassificationNN have run, in document order.
C21_Witness ==
    /\ notebook = "ClassificationNN"
    /\ in_order
    /\ last_cell = "compile_mse"
    /\ last_error = "none"
    /\ model.compiled
    /\ model.loss = "mean_squared_error"

\* C22: in a session whose cells are run in document order, with the
\* dataset fetched, no cell ends in a NameError: every name a cell reads
\* was bound by it or by a cell before it.
C22_DefineBeforeUse ==
    (in_order /\ (\E d \in {"train_data", "input_train"} : d \in bound)) =>
        last_error # "NameError"

\* C23: every word index of every review loaded with num_words = n lies in
\* 0..n-1, so vectorize_sequences with dimension n indexes inside its matrix
\* and the lookup of an Embedding layer of n rows is in range: neither
\* raises.
C23_IndicesInVocabulary ==
    /\ dpc # "error"
    /\ dpc \in {"loaded", "vectorized", "embedded"} =>
          \A r \in 1..Len(reviews) : \A k \in 1..Len(reviews[r]) :
              reviews[r][k] \in 0..(num_words - 1)
    /\ dpc = "vectorized" =>
          /\ Len(encoded) = Len(reviews)
          /\ \A r \in 1..Len(encoded) : DOMAIN encoded[r] = 0..(num_words - 1)

\* A review with a word inside the vocabulary and one outside it was loaded
\* and vectorized.
C23_Witness ==
    /\ dpc = "vectorized"
    /\ num_words = 5
    /\ dataset = <<<<1, 2>>>>
    /\ reviews = <<<<1, 4, 2>>>>
    /\ encoded[1][4] = 1

\* C24: in test_model every SimpleRNN layer that is followed by another
\* layer returns its full sequences, so every SimpleRNN of the stack is fed
\* a 3D tensor, and no add of the stack cells raises; after the stack cells
\* have run once, in document order, test_model is Embedding(10000, 32)
\* followed by four SimpleRNN(32) layers.
C24_StackReturnsSequences ==
    /\ \A n \in 1..Len(test_model) :
          test_model[n].type = "SimpleRNN" =>
              /\ stack_ndim(test_model, n - 1) = 3
              /\ n < Len(test_model) => test_model[n].return_sequences
    /\ last_cell \in {"stack_add", "stack_add3"} => last_error # "ValueError"
    /\ (in_order /\ last_cell = "stack_add3") =>
          /\ Len(test_model) = 5
          /\ test_model[1].type = "Embedding"
          /\ test_model[1].input_dim = 10000
          /\ test_model[1].units = 32
          /\ \A n \in 2..5 : /\ test_model[n].type = "SimpleRNN"
                              /\ test_model[n].units = 32

\* The stack cells have run once, in document order.
C24_Witness ==
    /\ in_order
    /\ last_cell = "stack_add3"
    /\ last_error = "none"
    /\ Len(test_model) = 5
    /\ test_model[5].return_sequences

\* C25: the Total params a summary() prints is the sum of the Param # of
\* the layers, 320000 for Embedding(10000, 32), 2080 for each SimpleRNN(32)
\* on a 32-wide input and 33 for Dense(1) on a 32-wide input: 322080 for
\* test_model with one recurrent layer, 328320 with four, and 322113 for the
\* model of the SimpleRNN exercise.
C25_ParameterTotals ==
    /\ (last_cell \in {"stack_add", "stack_add3"} /\ last_error = "none") =>
          summary = 320000 + (Len(test_model) - 1) * 2080
    /\ (in_order /\ last_cell = "stack_add" /\ last_error = "none") =>
          summary = 322080
    /\ (in_order /\ last_cell = "stack_add3" /\ last_error = "none") =>
          summary = 328320
    /\ (last_cell = "rnn_fit" /\ "model" \in bound /\ Len(model.layers) = 3) =>
          summary = 322113

\* The summary of the model of the SimpleRNN exercise was printed after
\* those of test_model.
C25_Witness ==
    /\ in_order
    /\ last_cell = "rnn_fit"
    /\ Len(test_model) = 5
    /\ Len(model.layers) = 3
    /\ summary = 322113

ceil_div(m, b) == CHOOSE n \in 0..m : n * b >= m /\ (n - 1) * b < m

\* C27: within an epoch of a fit over M samples with batch size B no sample
\* is processed twice, and when the epoch is over every sample was processed
\* in exactly one batch, every batch but possibly the last held exactly B
\* samples, and the epoch took ceil(M / B) steps: 547 steps for M = 17500,
\* B = 32 and 49 steps for M = 25000, B = 512.
C27_EpochOverBatches ==
    /\ \A i \in 1..num_train_samples : seen[i] <= 1
    /\ (bpc = "between" /\ epochs_done > 0) =>
          /\ \A i \in 1..num_train_samples : seen[i] = 1
          /\ \A k \in 1..(Len(batch_sizes) - 1) : batch_sizes[k] = size_of_batch
          /\ batch_sizes[Len(batch_sizes)] \in 1..size_of_batch
          /\ Len(batch_sizes) = ceil_div(num_train_samples, size_of_batch)
    /\ Len(make_batches(17500, 32)) = 547
    /\ Len(make_batches(train_samples, 512)) = 49

\* The second epoch over four shuffled samples in batches of three is over:
\* a full batch and a last batch of one.
C27_Witness ==
    /\ bpc = "between"
    /\ epochs_done = 2
    /\ num_train_samples = 4
    /\ size_of_batch = 3
    /\ batch_sizes = <<3, 1>>
    /\ index_array = <<3, 1, 4, 2>>

\* C28: after a cell that compares two networks the epoch axis and the
\* series plotted against it are there: the cell has run, epochs is bound,
\* and so is every series the cell takes from the history of a network
\* fitted for the 20 epochs of the axis.
C28_AxisMatchesSeries ==
    ocell \in ComparisonCells =>
        /\ oerror = "none"
        /\ plotted_by(ocell) \subseteq namespace

\* C30: in the dropout illustration layer_output is a matrix of shape
\* (batch_size, features) = (512, 10); dropout at training time keeps the
\* shape and leaves every entry zero or as it was (divided by 0.5 in the
\* variant that scales up).
C30_DropoutKeepsEntries ==
    (ocell \in {"dropout", "scale_up"} /\ oerror = "none") =>
        /\ layer_input.shape = <<512, 10>>
        /\ layer_output.shape = layer_input.shape
        /\ \A k \in DOMAIN layer_output.data :
              \/ layer_output.data[k][1] = 0
              \/ layer_output.data[k] =
                    IF ocell = "scale_up" THEN by_half(layer_input.data[k])
                    ELSE layer_input.data[k]

\* C29: padding is idempotent: padding the padded tensor to the same
\* length again returns it unchanged, so after the pad statement has run
\* once more the padded data is what the first padding of the loaded
\* reviews gave.
C29_PadIdempotent ==
    /\ ppc \in {"padded", "repadded"} => pad_sequences(padded, maxlen) = padded
    /\ ppc = "repadded" => padded = pad_sequences(input_train, maxlen)

\* The pad statement has run again on a tensor with a row that was cut and
\* a row that was filled.
C29_Witness ==
    /\ ppc = "repadded"
    /\ \E i, j \in 1..Len(input_train) :
          /\ Len(input_train[i]) > maxlen
          /\ Len(input_train[j]) < maxlen
          /\ padded[j][1] = pad_value
          /\ padded[i][1] # pad_value

=============================================================================
